---------------------------- MODULE Spec2Model ----------------------------
(***************************************************************************)
(* Model of the options calculator of the BTC options backend              *)
(* (src/backend/services/deltaExchangeService.js, class OptionsCalculator) *)
(* and of the request handlers of src/backend/server.js that call it.      *)
(*                                                                         *)
(* Numbers.  The code computes in IEEE-754 doubles.  The model computes in *)
(* fixed point on two grids:                                               *)
(*   - prices (S, K, premiums, payoffs, vega, theta, rho): integers in     *)
(*     units of 0.001 ("milli"), so 112000 is 112000000;                   *)
(*   - dimensionless quantities (sigma, T in years, r, d1, d2, N(d),       *)
(*     n(d), delta, gamma): integers in units of 0.000001 ("micro").       *)
(* Math.round(x * 100) / 100 is therefore a real rounding to a multiple of *)
(* 10 milli.  A threshold of the code that lies below the grid (tolerance  *)
(* 1e-5, 1e-10, 1e-6) is the comparison with one grid unit: on the grid    *)
(* |x| < 1e-5 and |x| < 1 unit are the same test.                          *)
(* A value that is a number or null (the return of                         *)
(* calculateImpliedVolatility) is JsNumber(v) or JsNull.                   *)
(***************************************************************************)
EXTENDS Integers, Sequences, FiniteSets, TLC

(***************************************************************************)
(* State that outlives a call: the calculator object and the clock         *)
(***************************************************************************)
VARIABLES
    calculator, \* the OptionsCalculator object: its field riskFreeRate
    now         \* the clock new Date() reads, in hours

(***************************************************************************)
(* Fixed-point kernel                                                      *)
(***************************************************************************)
\* One unit of the dimensionless grid is 1 / DS.
DS == 1000 * 1000

\* Largest magnitude the kernel represents; larger results saturate here
\* (the double range is far larger, and every use saturates to the same
\* N(d) = 0 or 1 and n(d) = 0 that the doubles reach).
NumCap == 1000 * DS

Abs(x) == IF x < 0 THEN -x ELSE x

Sgn(x) == IF x < 0 THEN -1 ELSE IF x > 0 THEN 1 ELSE 0

Min2(a, b) == IF a <= b THEN a ELSE b

Max2(a, b) == IF a >= b THEN a ELSE b

\* floor(a * b / 10^6) for a, b >= 0 without leaving 32 bits, saturating.
MulU(a, b) ==
    LET ah == a \div 1000
        al == a % 1000
        bh == b \div 1000
        bl == b % 1000
    IN  IF ah > 0 /\ bh > NumCap \div ah
        THEN NumCap
        ELSE Min2(NumCap, ah * bh + (ah * bl) \div 1000 + (al * bh) \div 1000
                          + (al * bl) \div DS)

\* a * b of two grid values, one of them dimensionless.
Mul(a, b) == Sgn(a) * Sgn(b) * MulU(Abs(a), Abs(b))

\* floor(r * 10^n / b) added to acc * 10^n, digit by digit (r < b < 2^31 / 10).
RECURSIVE LongDiv(_, _, _, _)
LongDiv(r, b, n, acc) ==
    IF n = 0 THEN acc
    ELSE IF acc >= NumCap \div 10 THEN NumCap
    ELSE LongDiv((r * 10) % b, b, n - 1, acc * 10 + (r * 10) \div b)

\* floor(a * 10^n / b) for a >= 0, b > 0, saturating at NumCap.
RECURSIVE DivFix(_, _, _)
DivFix(a, b, n) ==
    IF b >= 200 * DS THEN DivFix(a \div 10, b \div 10, n)
    ELSE LongDiv(a % b, b, n, a \div b)

\* a / b of two values of the same grid, as a dimensionless value.
Div(a, b) == Sgn(a) * Sgn(b) * DivFix(Abs(a), Abs(b), 6)

\* Integer square root: the largest s with s * s <= n.
RECURSIVE ISqrtFrom(_, _)
ISqrtFrom(n, s) ==
    LET t == (s + n \div s) \div 2
    IN  IF t >= s THEN s ELSE ISqrtFrom(n, t)

ISqrt(n) == IF n <= 0 THEN 0 ELSE ISqrtFrom(n, n)

\* One Newton step of the square root of x from the estimate s.
SqrtStep(x, s) == (s + Div(x, s)) \div 2

\* Math.sqrt(x) for a dimensionless x > 0: two Newton steps from ISqrt.
Sqrt(x) == SqrtStep(x, SqrtStep(x, Max2(1, ISqrt(x) * 1000)))

LN2 == 693147

\* 2 * atanh(z) from z and z^2: 2 z (1 + z^2/3 + z^4/5 + ... + z^10/11).
AtanhTerms(z, z2) ==
    2 * Mul(z, DS + Mul(z2, 333333 + Mul(z2, 200000 + Mul(z2, 142857
                     + Mul(z2, 111111 + Mul(z2, 90909))))))

AtanhTwice(z) == AtanhTerms(z, Mul(z, z))

\* ln(m) for 1 <= m < 2: 2 * atanh((m - 1) / (m + 1)).
LnMantissa(m) == AtanhTwice(Div(m - DS, m + DS))

\* Math.log(x) for a dimensionless x > 0, by halving or doubling into [1, 2).
RECURSIVE Ln(_)
Ln(x) ==
    IF x >= 2 * DS THEN LN2 + Ln(x \div 2)
    ELSE IF x < DS THEN Ln(2 * x) - LN2
    ELSE LnMantissa(x)

RECURSIVE Pow2(_)
Pow2(k) == IF k = 0 THEN 1 ELSE 2 * Pow2(k - 1)

\* e^(-f) for 0 <= f < ln 2: the Taylor series to the tenth power.
RECURSIVE ExpSeries(_, _, _, _)
ExpSeries(f, n, term, acc) ==
    IF n > 10 \/ term = 0 THEN acc
    ELSE LET t == -(Mul(Abs(term), f) \div n) * Sgn(term)
         IN  ExpSeries(f, n + 1, t, acc + t)

\* Math.exp(-y) for a dimensionless y >= 0.
ExpNeg(y) ==
    LET k == y \div LN2
        f == y % LN2
    IN  IF k > 30 THEN 0 ELSE ExpSeries(f, 1, DS, DS) \div Pow2(k)

\* The polynomial of Abramowitz-Stegun 7.1.26 in t = 1 / (1 + p x).
ErfPoly(t) ==
    Mul(t, 254830 + Mul(t, -284497 + Mul(t, 1421414
                  + Mul(t, -1453152 + Mul(t, 1061405)))))

\* math.erf(x) for x >= 0 (Abramowitz-Stegun 7.1.26, error below 2e-7).
ErfPos(x) ==
    IF x >= 6 * DS THEN DS
    ELSE DS - Mul(ErfPoly(Div(DS, DS + Mul(327591, x))), ExpNeg(Mul(x, x)))

\* math.erf is odd.
Erf(x) == Sgn(x) * ErfPos(Abs(x))

(***************************************************************************)
(* OptionsCalculator: pricing                                              *)
(***************************************************************************)
\* this.riskFreeRate = 0.05, on the dimensionless grid.
riskFreeRate == 50000

\* 1 / Math.sqrt(2) on the dimensionless grid.
InvSqrt2 == 707107

\* 1 / Math.sqrt(2 * Math.PI) on the dimensionless grid.
InvSqrt2Pi == 398942

\* normalCDF(x) = 0.5 * (1 + math.erf(x / Math.sqrt(2))).
normalCDF(x) == (DS + Erf(Mul(x, InvSqrt2))) \div 2

\* normalPDF(x) = (1 / Math.sqrt(2 * Math.PI)) * Math.exp(-0.5 * x * x).
normalPDF(x) == Mul(InvSqrt2Pi, ExpNeg(Mul(x, x) \div 2))

\* A faulty blackScholes at expiry, S - K or K - S with no floor at 0;
\* ExpiredPriceIsIntrinsic must reject it.
ExpiredPriceUnfloored(S, K, optionType) ==
    IF optionType = "call" THEN S - K ELSE K - S

\* What blackScholes returns for T <= 0: every optionType other than 'call'
\* takes the put side of the conditional.
ExpiredPrice(S, K, optionType) ==
    IF optionType = "call" THEN Max2(0, S - K) ELSE Max2(0, K - S)

\* Faulty Greeks at expiry, a call's delta being 1 already at S = K;
\* ExpiredGreeksAreFlat must reject them.
ExpiredGreeksAtTheMoney(S, K, optionType) ==
    [delta |-> IF optionType = "call"
               THEN (IF S >= K THEN DS ELSE 0)
               ELSE (IF S < K THEN -DS ELSE 0),
     gamma |-> 0, theta |-> 0, vega |-> 0, rho |-> 0]

\* What calculateGreeks returns for T <= 0.
ExpiredGreeks(S, K, optionType) ==
    [delta |-> IF optionType = "call"
               THEN (IF S > K THEN DS ELSE 0)
               ELSE (IF S < K THEN -DS ELSE 0),
     gamma |-> 0, theta |-> 0, vega |-> 0, rho |-> 0]

\* sigma * Math.sqrt(T).
SigmaSqrtT(T, sigma) == Mul(sigma, Sqrt(T))

\* d1 = (Math.log(S / K) + (r + 0.5 * sigma * sigma) * T) / (sigma * Math.sqrt(T)).
\* The quotient is taken term by term, (ln(S/K) + r T) / (sigma sqrt T) +
\* sigma sqrt(T) / 2, which is the same real number and keeps sigma * sigma
\* inside the kernel's range for the large sigma a Newton step can produce.
D1From(S, K, T, r, sst) == Div(Ln(Div(S, K)) + Mul(r, T), sst) + sst \div 2

D1(S, K, T, r, sigma) == D1From(S, K, T, r, SigmaSqrtT(T, sigma))

\* Math.exp(-r * T).
Discount(T, r) == ExpNeg(Mul(r, T))

\* A faulty put that weighs the discounted strike by N(d2) instead of
\* N(-d2); PutCallParity must reject it.
PriceFromD1PutOnD2(S, kd, d1, sst, optionType) ==
    IF optionType = "call"
    THEN Mul(S, normalCDF(d1)) - Mul(kd, normalCDF(d1 - sst))
    ELSE Mul(kd, normalCDF(d1 - sst)) - Mul(S, normalCDF(-d1))

\* The two return statements of blackScholes, from d1, sigma sqrt(T) (so
\* that d2 = d1 - sst) and kd = K * Math.exp(-r * T).
PriceFromD1(S, kd, d1, sst, optionType) ==
    IF optionType = "call"
    THEN Mul(S, normalCDF(d1)) - Mul(kd, normalCDF(d1 - sst))
    ELSE Mul(kd, normalCDF(sst - d1)) - Mul(S, normalCDF(-d1))

\* blackScholes(S, K, T, r, sigma, optionType).
blackScholes(S, K, T, r, sigma, optionType) ==
    IF T <= 0
    THEN ExpiredPrice(S, K, optionType)
    ELSE PriceFromD1(S, Mul(K, Discount(T, r)), D1(S, K, T, r, sigma),
                     SigmaSqrtT(T, sigma), optionType)

\* The Greeks for T > 0 from sqrt(T), d1, n(d1) and the discount factor.
\* delta and gamma are dimensionless-grid values (gamma per unit of price),
\* theta, vega and rho price-grid values.
GreeksFromPdf(S, K, T, r, sigma, optionType, sqrtT, d1, disc, pdf) ==
    LET sst == Mul(sigma, sqrtT)
        d2 == d1 - sst
        ssst == Mul(S, sst)
        gamma == IF pdf = 0 THEN 0
                 ELSE IF ssst = 0 THEN NumCap
                 ELSE DivFix(pdf, ssst, 3)
        decay == Div(Mul(Mul(S, pdf), sigma), 2 * sqrtT)
        carry == Mul(Mul(r, K), disc)
        vega == Mul(Mul(S, sqrtT), pdf)
        krt == Mul(Mul(K, T), disc)
    IN  IF optionType = "call"
        THEN [delta |-> normalCDF(d1),
              gamma |-> gamma,
              theta |-> -decay - Mul(carry, normalCDF(d2)),
              vega  |-> vega,
              rho   |-> Mul(krt, normalCDF(d2))]
        ELSE [delta |-> normalCDF(d1) - DS,
              gamma |-> gamma,
              theta |-> -decay + Mul(carry, normalCDF(-d2)),
              vega  |-> vega,
              rho   |-> -Mul(krt, normalCDF(-d2))]

GreeksFromD1(S, K, T, r, sigma, optionType, sqrtT, d1, disc) ==
    GreeksFromPdf(S, K, T, r, sigma, optionType, sqrtT, d1, disc, normalPDF(d1))

\* calculateGreeks(S, K, T, r, sigma, optionType).
calculateGreeks(S, K, T, r, sigma, optionType) ==
    IF T <= 0
    THEN ExpiredGreeks(S, K, optionType)
    ELSE GreeksFromD1(S, K, T, r, sigma, optionType, Sqrt(T),
                      D1(S, K, T, r, sigma), Discount(T, r))

(***************************************************************************)
(* OptionsCalculator: strategies                                           *)
(***************************************************************************)
\* Math.round(x * 100) / 100 of a price: the nearest multiple of 0.01, a
\* half rounding up.
Round2(x) == ((x + 5) \div 10) * 10

\* leg.option.strikePrice of every leg, in order.
Strikes(legs) == [i \in 1..Len(legs) |-> legs[i].option.strikePrice]

\* Math.min(...s) over the entries lo..hi of a list, by halves.
RECURSIVE SeqMinIn(_, _, _)
SeqMinIn(s, lo, hi) ==
    IF lo = hi THEN s[lo]
    ELSE LET mid == (lo + hi) \div 2
         IN  Min2(SeqMinIn(s, lo, mid), SeqMinIn(s, mid + 1, hi))

SeqMin(s) == SeqMinIn(s, 1, Len(s))

\* Math.max(...s) over the entries lo..hi of a list, by halves.
RECURSIVE SeqMaxIn(_, _, _)
SeqMaxIn(s, lo, hi) ==
    IF lo = hi THEN s[lo]
    ELSE LET mid == (lo + hi) \div 2
         IN  Max2(SeqMaxIn(s, lo, mid), SeqMaxIn(s, mid + 1, hi))

SeqMax(s) == SeqMaxIn(s, 1, Len(s))

\* A faulty window whose start is not floored at 0;
\* PayoffWindowFlooredAtZero must reject it.
PayoffWindowUnfloored(legs, currentPrice) ==
    LET none == legs = << >>
        minStrike == IF none THEN currentPrice ELSE SeqMin(Strikes(legs))
        maxStrike == IF none THEN currentPrice ELSE SeqMax(Strikes(legs))
        range == IF none THEN currentPrice \div 2
                 ELSE Max2(maxStrike - minStrike, currentPrice \div 2)
        start == Min2(minStrike, currentPrice) - Mul(range, 300000)
        end == Max2(maxStrike, currentPrice) + Mul(range, 300000)
    IN  [start |-> start, end |-> end, step |-> (end - start + 50) \div 100]

\* The sampling window [start, end] and the step of calculatePayoffRange.
\* With no leg, Math.min() is Infinity and Math.max() is -Infinity, so
\* maxStrike - minStrike is -Infinity, range is currentPrice * 0.5 and the
\* window is taken around currentPrice alone.
PayoffWindow(legs, currentPrice) ==
    LET none == legs = << >>
        minStrike == IF none THEN currentPrice ELSE SeqMin(Strikes(legs))
        maxStrike == IF none THEN currentPrice ELSE SeqMax(Strikes(legs))
        range == IF none THEN currentPrice \div 2
                 ELSE Max2(maxStrike - minStrike, currentPrice \div 2)
        start == Max2(0, Min2(minStrike, currentPrice) - Mul(range, 300000))
        end == Max2(maxStrike, currentPrice) + Mul(range, 300000)
    IN  [start |-> start, end |-> end, step |-> (end - start + 50) \div 100]

\* for (let price = start; price <= end; price += step) points.push(round2(price)):
\* the i-th pass (from 0) sees price = start + i * step and runs while that
\* is <= end, so for step > 0 there are (end - start) \div step + 1 passes.
SamplePoints(start, end, step) ==
    [i \in 1..((end - start) \div step + 1) |-> Round2(start + (i - 1) * step)]

\* calculatePayoffRange(strategy, currentPrice).
calculatePayoffRange(legs, currentPrice) ==
    LET w == PayoffWindow(legs, currentPrice)
    IN  SamplePoints(w.start, w.end, w.step)

\* The payoff of one instrument at a price; a contract type that is none of
\* the three leaves legPayoff at 0.
LegPayoff(option, price) ==
    IF option.contractType = "call_option" THEN Max2(0, price - option.strikePrice)
    ELSE IF option.contractType = "put_option" THEN Max2(0, option.strikePrice - price)
    ELSE IF option.contractType = "futures" THEN price - option.strikePrice
    ELSE 0

\* A faulty direction that counts a sold leg like a bought one;
\* StrategyPayoffIsSignedSum must reject it.
ActionSignIgnored(leg) == 1

\* leg.action === 'buy' ? 1 : -1.
ActionSign(leg) == IF leg.action = "buy" THEN 1 ELSE -1

\* calculateStrategyPayoff(strategy, price): the forEach accumulation.
RECURSIVE calculateStrategyPayoff(_, _)
calculateStrategyPayoff(legs, price) ==
    IF legs = << >> THEN 0
    ELSE LET n == Len(legs)
             leg == legs[n]
         IN  calculateStrategyPayoff(SubSeq(legs, 1, n - 1), price)
             + LegPayoff(leg.option, price) * leg.quantity * ActionSign(leg)

\* The interpolated, rounded crossing of one adjacent pair of samples.
\* A faulty interpolation that weighs by the current sample's payoff, which
\* puts the crossing nearer the sample of larger magnitude;
\* CrossingsInterpolateLinearly must reject it.
CrossingTowardsLarger(prev, curr) ==
    LET denom == Abs(prev.payoff) + Abs(curr.payoff)
        ratio == Div(Abs(curr.payoff), denom)
    IN  Round2(prev.price + Mul(ratio, curr.price - prev.price))

Crossing(prev, curr) ==
    LET denom == Abs(prev.payoff) + Abs(curr.payoff)
        ratio == Div(Abs(prev.payoff), denom)
    IN  Round2(prev.price + Mul(ratio, curr.price - prev.price))

\* Whether the pair's payoffs change sign or touch zero.
SignChange(prev, curr) ==
    \/ prev.payoff <= 0 /\ curr.payoff >= 0
    \/ prev.payoff >= 0 /\ curr.payoff <= 0

\* The indices i (1-based, the pair is payoffData[i - 1], payoffData[i]) at
\* which the loop of findBreakEvenPoints computes a crossing: the payoffs
\* change sign or touch zero and denom is not below epsilon.
CrossingIndices(payoffData) ==
    {i \in 2..Len(payoffData) :
        /\ SignChange(payoffData[i - 1], payoffData[i])
        /\ ~(Abs(payoffData[i - 1].payoff) + Abs(payoffData[i].payoff) < 1)}

\* The least element of a non-empty set of indices.
Least(I) == CHOOSE i \in I : \A j \in I : i <= j

\* A faulty test that finds no crossing close to an earlier one;
\* BreakEvensAscendingAndApart must reject it.
IsDuplicateNever(found, price) == FALSE

\* breakEvenPoints.some(p => Math.abs(p - price) < 0.5).
IsDuplicate(found, price) ==
    \E k \in 1..Len(found) : Abs(found[k] - price) < 500

\* The loop of findBreakEvenPoints over the remaining crossing indices, in
\* ascending order: a crossing within 0.5 of one already found is dropped.
RECURSIVE BreakEvenScan(_, _, _)
BreakEvenScan(payoffData, I, found) ==
    IF I = {} THEN found
    ELSE LET i == Least(I)
             price == Crossing(payoffData[i - 1], payoffData[i])
         IN  BreakEvenScan(payoffData, I \ {i},
                           IF IsDuplicate(found, price) THEN found
                           ELSE Append(found, price))

\* findBreakEvenPoints(payoffData).
findBreakEvenPoints(payoffData) ==
    BreakEvenScan(payoffData, CrossingIndices(payoffData), << >>)

(***************************************************************************)
(* OptionsCalculator: per-instrument and per-strategy metrics              *)
(***************************************************************************)
\* Dates are counted in hours; 1000 * 60 * 60 * 24 ms is one day.
HoursPerDay == 24

DaysPerYear == 365

\* option.impliedVolatility || 0.5.
DefaultVolatility == 500000

\* calculateDTE(expirationDate) at the clock reading nowH:
\* Math.max(0, Math.ceil((expiry - now) / one day)).
calculateDTE(expirationDate, nowH) ==
    Max2(0, -((nowH - expirationDate) \div HoursPerDay))

\* calculateTimeToExpiry(expirationDate) = dte / 365.
calculateTimeToExpiry(expirationDate, nowH) ==
    DivFix(calculateDTE(expirationDate, nowH), DaysPerYear, 6)

\* The values an instrument carries as expirationDate: a date (in hours on
\* the clock of now), null, or a text that is no date, such as 'PERP'.
JsDate(h) == [type |-> "date", at |-> h]

JsString(s) == [type |-> "string", text |-> s]

JsNaN == [type |-> "NaN"]

\* 1970-01-01, the date new Date(null) gives, decades before now.
Epoch == -(50 * DaysPerYear * HoursPerDay)

\* new Date(expirationDate), as the time value the subtraction expiry - now
\* reads: the date itself, the epoch for null, NaN (Invalid Date) for a text
\* that does not parse.
NewDate(expirationDate) ==
    CASE expirationDate.type = "date" -> [type |-> "number", value |-> expirationDate.at]
      [] expirationDate.type = "null" -> [type |-> "number", value |-> Epoch]
      [] OTHER -> JsNaN

\* calculateTimeToExpiry on any expirationDate value.  NaN goes through the
\* subtraction, Math.ceil, Math.max(0, NaN) and the division unchanged.
TimeToExpiryOf(expirationDate, nowH) ==
    LET expiry == NewDate(expirationDate)
    IN  IF expiry.type = "NaN"
        THEN JsNaN
        ELSE [type |-> "number", value |-> calculateTimeToExpiry(expiry.value, nowH)]

\* A faulty || that never takes its left operand; PriceIsLastOrTheoretical
\* must reject it.
OrElseRight(a, b) == b

\* a || b for numbers: 0 (like an absent field) is falsy.
OrElse(a, b) == IF a = 0 THEN b ELSE a

\* calculateOptionMetrics(option, currentPrice).
calculateOptionMetrics(option, currentPrice, nowH) ==
    LET S == currentPrice
        K == option.strikePrice
        T == calculateTimeToExpiry(option.expirationDate, nowH)
        r == calculator.riskFreeRate
        optionType == IF option.contractType = "call_option" THEN "call" ELSE "put"
        vol == OrElse(option.impliedVolatility, DefaultVolatility)
        marketPrice == OrElse(option.lastPrice, blackScholes(S, K, T, r, vol, optionType))
        intrinsic == IF optionType = "call" THEN Max2(0, S - K) ELSE Max2(0, K - S)
    IN  [price |-> marketPrice,
         intrinsic |-> intrinsic,
         extrinsic |-> marketPrice - intrinsic,
         greeks |-> calculateGreeks(S, K, T, r, vol, optionType),
         dte |-> calculateDTE(option.expirationDate, nowH),
         timeToExpiry |-> T]

\* The legMetrics record of the map callback: the option's metrics spread
\* into it, and the position's share of each.
PositionMetrics(metrics, leg) ==
    [price |-> metrics.price,
     intrinsic |-> metrics.intrinsic,
     extrinsic |-> metrics.extrinsic,
     greeks |-> metrics.greeks,
     dte |-> metrics.dte,
     timeToExpiry |-> metrics.timeToExpiry,
     positionDelta |-> metrics.greeks.delta * (leg.quantity * ActionSign(leg)),
     positionGamma |-> metrics.greeks.gamma * (leg.quantity * ActionSign(leg)),
     positionTheta |-> metrics.greeks.theta * (leg.quantity * ActionSign(leg)),
     positionVega |-> metrics.greeks.vega * (leg.quantity * ActionSign(leg)),
     positionRho |-> metrics.greeks.rho * (leg.quantity * ActionSign(leg)),
     positionCost |-> metrics.price * leg.quantity * ActionSign(leg),
     quantity |-> leg.quantity,
     action |-> leg.action]

\* The map callback of calculateStrategyMetrics up to its record.
LegMetrics(leg, currentPrice, nowH) ==
    PositionMetrics(calculateOptionMetrics(leg.option, currentPrice, nowH), leg)

\* The totals before the first leg.
ZeroTotals ==
    [legs |-> << >>, totalDelta |-> 0, totalGamma |-> 0, totalTheta |-> 0,
     totalVega |-> 0, totalRho |-> 0, totalCost |-> 0]

\* A faulty accumulation whose cost adds each leg's price, whatever its
\* quantity and side; StrategyTotalsArePlainSums must reject it.
AddLegMetricsCostUnsigned(acc, m) ==
    [legs |-> Append(acc.legs, m),
     totalDelta |-> acc.totalDelta + m.positionDelta,
     totalGamma |-> acc.totalGamma + m.positionGamma,
     totalTheta |-> acc.totalTheta + m.positionTheta,
     totalVega |-> acc.totalVega + m.positionVega,
     totalRho |-> acc.totalRho + m.positionRho,
     totalCost |-> acc.totalCost + m.price]

\* A faulty accumulation that assigns where it should add, so that the
\* totals are those of the last leg; LegOrderIrrelevant must reject it.
AddLegMetricsOverwriting(acc, m) ==
    [legs |-> Append(acc.legs, m),
     totalDelta |-> m.positionDelta,
     totalGamma |-> m.positionGamma,
     totalTheta |-> m.positionTheta,
     totalVega |-> m.positionVega,
     totalRho |-> m.positionRho,
     totalCost |-> m.positionCost]

\* total... += legMetrics.position..., and the record joining the mapped list.
AddLegMetrics(acc, m) ==
    [legs |-> Append(acc.legs, m),
     totalDelta |-> acc.totalDelta + m.positionDelta,
     totalGamma |-> acc.totalGamma + m.positionGamma,
     totalTheta |-> acc.totalTheta + m.positionTheta,
     totalVega |-> acc.totalVega + m.positionVega,
     totalRho |-> acc.totalRho + m.positionRho,
     totalCost |-> acc.totalCost + m.positionCost]

\* strategy.legs.map(...): each leg's record, and the totals it adds to.
RECURSIVE MapLegs(_, _, _)
MapLegs(legs, currentPrice, nowH) ==
    IF legs = << >> THEN ZeroTotals
    ELSE AddLegMetrics(MapLegs(SubSeq(legs, 1, Len(legs) - 1), currentPrice, nowH),
                       LegMetrics(legs[Len(legs)], currentPrice, nowH))

\* priceRange.map(price => ({ price, payoff })).
PayoffData(legs, priceRange) ==
    [i \in 1..Len(priceRange) |->
        [price |-> priceRange[i],
         payoff |-> calculateStrategyPayoff(legs, priceRange[i])]]

\* payoffData.map(p => p.payoff).
Payoffs(payoffData) == [i \in 1..Len(payoffData) |-> payoffData[i].payoff]

\* What calculateStrategyMetrics returns, from the mapped legs with their
\* totals and the sampled payoff curve.
StrategyMetrics(totals, payoffData, currentPrice) ==
    [legs |-> totals.legs,
     totalDelta |-> totals.totalDelta,
     totalGamma |-> totals.totalGamma,
     totalTheta |-> totals.totalTheta,
     totalVega |-> totals.totalVega,
     totalRho |-> totals.totalRho,
     totalCost |-> totals.totalCost,
     maxProfit |-> SeqMax(Payoffs(payoffData)),
     maxLoss |-> SeqMin(Payoffs(payoffData)),
     breakEvenPoints |-> findBreakEvenPoints(payoffData),
     payoffData |-> payoffData,
     currentPrice |-> currentPrice]

\* calculateStrategyMetrics(strategy, currentPrice) for a strategy that has a
\* legs array.  The sampled curve is never empty for currentPrice > 0, so
\* Math.max(...payoffs) and Math.min(...payoffs) are numbers.
calculateStrategyMetrics(strategy, currentPrice, nowH) ==
    StrategyMetrics(MapLegs(strategy.legs, currentPrice, nowH),
                    PayoffData(strategy.legs,
                               calculatePayoffRange(strategy.legs, currentPrice)),
                    currentPrice)

(***************************************************************************)
(* calculateImpliedVolatility: the Newton-Raphson loop, one pass at a time *)
(***************************************************************************)
\* let sigma = 0.5.
InitialGuess == 500000

\* Math.max(0.001, sigma).
SigmaFloor == 1000

\* The default of the parameter maxIterations.
DefaultMaxIterations == 100

\* The default of the parameter tolerance, 1e-5: below the price grid, so
\* Math.abs(diff) < tolerance is Math.abs(diff) < one unit.
DefaultTolerance == 1

\* The vega threshold 1e-10: below the price grid likewise.
VegaEpsilon == 1

\* The price assumed before CoinGecko has answered, in dollars.
FallbackPrice == 65000

\* The two kinds of value calculateImpliedVolatility returns.
JsNull == [type |-> "null"]

JsNumber(v) == [type |-> "number", value |-> v]

\* A faulty expiry branch that reports volatility 0 whenever the market
\* price is at least the intrinsic value; ExpiredVolatilityIsZeroOrNull must
\* reject it.
ExpiredVolatilityLoose(S, K, marketPrice, optionType) ==
    LET intrinsic == IF optionType = "call" THEN Max2(0, S - K) ELSE Max2(0, K - S)
    IN  IF intrinsic <= marketPrice THEN JsNumber(0) ELSE JsNull

\* A faulty while condition that allows one pass too many;
\* ImpliedVolatilityEnds must reject it.
LoopContinuesOnceMore(iter, maxIterations) == iter <= maxIterations

\* A faulty convergence test that forgets Math.abs;
\* VolatilityReproducesPrice must reject it.
WithinToleranceSigned(diff, tolerance) == diff < tolerance

\* a + b, saturating at the kernel's range.
AddSat(a, b) ==
    IF b > 0 /\ a > NumCap - b THEN NumCap
    ELSE IF b < 0 /\ a < -NumCap - b THEN -NumCap
    ELSE a + b

\* The T <= 0 return of calculateImpliedVolatility.
ExpiredVolatility(S, K, marketPrice, optionType) ==
    LET intrinsic == IF optionType = "call" THEN Max2(0, S - K) ELSE Max2(0, K - S)
    IN  IF intrinsic = marketPrice THEN JsNumber(0) ELSE JsNull

\* iteration < maxIterations, the while condition.
LoopContinues(iter, maxIterations) == iter < maxIterations

\* Math.abs(diff) < tolerance.
WithinTolerance(diff, tolerance) == Abs(diff) < tolerance

\* Math.abs(vega) < 1e-10.
VegaVanishes(vega) == Abs(vega) < VegaEpsilon

\* A faulty update that leaves the Math.max out;
\* EvaluatedVolatilityAtLeastFloor must reject it.
NewtonUpdateUnclamped(sig, diff, vega) == AddSat(sig, Div(diff, vega))

\* sigma = Math.max(0.001, sigma + diff / vega).
NewtonUpdate(sig, diff, vega) == Max2(SigmaFloor, AddSat(sig, Div(diff, vega)))

(***************************************************************************)
(* The calculator as the server drives it: one call at a time              *)
(***************************************************************************)
VARIABLES
    pc,         \* "idle", "newton" (inside the loop of calculateImpliedVolatility), "done"
    op,         \* the operation called, "none" when idle
    args,       \* its arguments
    result,     \* what it returned (or the error it threw), "none" before that
    threw,      \* whether the call ended in an exception
    sigma,      \* calculateImpliedVolatility: let sigma
    iteration,  \* calculateImpliedVolatility: let iteration
    trace,      \* the (sigma, diff) pairs the loop has evaluated, in order
    kept        \* one earlier call with its result, held by its caller

\* The server around the calculator: the DeltaExchangeService object, the
\* upstream WebSocket objects it has created, its reconnect timers, and the
\* Socket.IO clients of server.js.
VARIABLES
    clockMs,                \* the clock Date.now() reads, in milliseconds
    clients,                \* connected Socket.IO clients, each with the subscriptionId of its handler
    deltaExchangeService,   \* the fields ws, isConnected and subscribers
    webSockets,             \* every upstream WebSocket created so far, with its state
    timers,                 \* pending setTimeout(() => this.connectWebSocket(), 5000)
    delivered,              \* the clients the last ticker was emitted to
    disconnectRequested     \* disconnect() was called and connectWebSocket() not called since

\* The Bitcoin price: the BitcoinPriceService object, the price server.js
\* keeps, and the CoinGecko requests under way.
VARIABLES
    bitcoinPriceService,    \* the fields currentPrice, lastUpdate, updateTimer and subscribers
    currentBTCPrice,        \* let currentBTCPrice of server.js
    inFlight,               \* the callers awaiting axios.get, as a bag
    completed,              \* the responses of the fetches completed, in order of completion
    broadcasts,             \* the prices emitted with io.emit('btcPrice', ...), in order
    routeResponse           \* the last response of GET /api/bitcoin-price

calculatorVars ==
    << calculator, now, pc, op, args, result, threw, sigma, iteration, trace, kept >>

realtimeVars ==
    << clockMs, clients, deltaExchangeService, webSockets, timers, delivered,
       disconnectRequested >>

priceVars ==
    << bitcoinPriceService, currentBTCPrice, inFlight, completed, broadcasts,
       routeResponse >>

serverVars == << realtimeVars, priceVars >>

vars == << calculatorVars, serverVars >>

\* Bounds of the model.
MaxNow == 1

MaxLegs == 2

MaxNewton == 3

\* Inputs of the direct pricing calls (prices in milli, the rest in micro).
SpotPrices == {10000, 12000}

StrikePrices == {10000, 11000}

Expiries == {-82192, 0, 82192, 1000000}

Rates == {0, riskFreeRate}

Volatilities == {200000, 500000}

OptionTypes == {"call", "put"}

\* Inputs of calculateImpliedVolatility.
IvStrikes == {9000, 10000, 12000}

MarketPrices == {0, 300, 1000, 1046, 3000, 20000}

\* The volatilities a price is made from before it is inverted, at both ends
\* of the range 0.1 to 2.0, for an option deep in or out of the money.
RoundTripVolatilities == {100000, 2000000}

IterationCaps == (0..MaxNewton) \cup {DefaultMaxIterations}

Tolerances == {DefaultTolerance, 20}

\* Inputs of the strategy calls (prices in milli, dates in hours).  An
\* absent lastPrice or impliedVolatility is 0: the code reads both through
\* ||, for which absent and 0 are alike.
Option(contractType, strikePrice, expirationDate) ==
    [strikePrice |-> strikePrice, contractType |-> contractType,
     expirationDate |-> expirationDate, lastPrice |-> 0, impliedVolatility |-> 0]

Leg(contractType, strikePrice, expirationDate, quantity, action) ==
    [option |-> Option(contractType, strikePrice, expirationDate),
     quantity |-> quantity, action |-> action]

\* Expiration dates of the instruments: thirty days after hour 0, and hour 0
\* itself (an instrument at its expiry).
InThirtyDays == 30 * HoursPerDay

AtExpiry == 0 * HoursPerDay

InOneHour == AtExpiry + 1

\* The instruments priced on their own, and a request body without option.
OptionInputs ==
    { Option("call_option", 110000000, InThirtyDays),
      Option("put_option", 113000000, InOneHour),
      Option("call_option", 113000000, AtExpiry),
      Option("futures", 110000000, InThirtyDays),
      [Option("call_option", 110000000, InThirtyDays) EXCEPT !.lastPrice = 1500000],
      [Option("put_option", 113000000, InThirtyDays) EXCEPT !.impliedVolatility = 800000] }

NoOptionBody == [currentPrice |-> 112000000]

\* Expiration values of the products served: dated options (expired a day
\* ago, expiring now, in an hour, in thirty days), the perpetual future's
\* 'PERP', and null.
ExpirationValues ==
    { JsDate(h) : h \in {-HoursPerDay, AtExpiry, InOneHour, InThirtyDays} }
        \cup { [type |-> "null"], JsString("PERP") }

Legs ==
    { Leg("call_option", 110000000, InThirtyDays, 1, "buy"),
      Leg("call_option", 113000000, InThirtyDays, 1, "sell"),
      Leg("call_option", 112000000, InThirtyDays, 1, "buy"),
      Leg("call_option", 113000000, AtExpiry, 1, "buy"),
      Leg("put_option", 110000000, InThirtyDays, 2, "buy"),
      Leg("put_option", 113000000, InThirtyDays, 1, "sell"),
      Leg("futures", 110000000, InThirtyDays, 1, "buy"),
      Leg("futures", 113000000, InThirtyDays, 2, "sell") }

\* Every list of at most MaxLegs legs, the empty list included.
LegLists == UNION {[1..n -> Legs] : n \in 0..MaxLegs}

\* A request body whose strategy has no legs array.
NoLegsStrategy == [name |-> "custom"]

\* A put far below the spot against a call above it: the strikes lie further
\* apart than the lower one lies above zero.
WideStrangle ==
    << Leg("put_option", 10000000, InThirtyDays, 1, "buy"),
       Leg("call_option", 113000000, InThirtyDays, 1, "sell") >>

Strategies ==
    {[legs |-> l] : l \in LegLists} \cup {NoLegsStrategy, [legs |-> WideStrangle]}

CurrentPrices == {112000000, 112271900}

PayoffPrices == {109000000, 111500000, 114000000}

\* No call is held.
NoCall == [op |-> "none"]

CalculatorFieldsOverwritten(c) == [c EXCEPT !.riskFreeRate = 0]

\* The calculator object after one of its methods has run: the methods read
\* this.riskFreeRate and assign no field.
CalculatorAfterCall(c) == c

Init ==
    /\ pc = "idle"
    /\ op = "none"
    /\ args = << >>
    /\ result = "none"
    /\ threw = FALSE
    /\ sigma = 0
    /\ iteration = 0
    /\ trace = << >>
    /\ now = 0
    /\ calculator = [riskFreeRate |-> riskFreeRate]
    /\ kept = NoCall
    /\ clockMs = 0
    /\ clients = {}
    /\ deltaExchangeService = [ws |-> 0, isConnected |-> FALSE, subscribers |-> {}]
    /\ webSockets = << >>
    /\ timers = 0
    /\ delivered = {}
    /\ disconnectRequested = FALSE
    /\ bitcoinPriceService =
           [currentPrice |-> JsNull, lastUpdate |-> "null", updateTimer |-> FALSE,
            subscribers |-> << >>]
    /\ currentBTCPrice = JsNumber(FallbackPrice)
    /\ inFlight = [periodic |-> 0, route |-> 0]
    /\ completed = << >>
    /\ broadcasts = << >>
    /\ routeResponse = [status |-> 0, data |-> JsNull]

\* Time passes between two calls.
Tick ==
    /\ pc = "idle"
    /\ now < MaxNow
    /\ now' = now + 1
    /\ UNCHANGED << calculator, pc, op, args, result, threw, sigma, iteration, trace, kept >>
    /\ UNCHANGED serverVars

\* A call of blackScholes(S, K, T, r, sigma, optionType).
CallBlackScholes(S, K, T, r, vol, optionType) ==
    /\ pc = "idle"
    /\ pc' = "done"
    /\ op' = "blackScholes"
    /\ args' = [S |-> S, K |-> K, T |-> T, r |-> r, sigma |-> vol,
                optionType |-> optionType]
    /\ result' = blackScholes(S, K, T, r, vol, optionType)
    /\ threw' = FALSE
    /\ UNCHANGED << calculator, sigma, iteration, trace, now, kept >>
    /\ UNCHANGED serverVars

\* POST /api/calculate/greeks: calculateGreeks(S, K, T, r, sigma, optionType).
CallCalculateGreeks(S, K, T, r, vol, optionType) ==
    /\ pc = "idle"
    /\ pc' = "done"
    /\ op' = "calculateGreeks"
    /\ args' = [S |-> S, K |-> K, T |-> T, r |-> r, sigma |-> vol,
                optionType |-> optionType]
    /\ result' = calculateGreeks(S, K, T, r, vol, optionType)
    /\ threw' = FALSE
    /\ UNCHANGED << calculator, sigma, iteration, trace, now, kept >>
    /\ UNCHANGED serverVars

\* POST /api/calculate/iv: calculateImpliedVolatility up to its loop.  With
\* T <= 0 it returns at once; otherwise sigma = 0.5, iteration = 0.
CallImpliedVolatility(S, K, T, r, marketPrice, optionType, maxIterations, tolerance) ==
    /\ pc = "idle"
    /\ op' = "calculateImpliedVolatility"
    /\ args' = [S |-> S, K |-> K, T |-> T, r |-> r, marketPrice |-> marketPrice,
                optionType |-> optionType, maxIterations |-> maxIterations,
                tolerance |-> tolerance]
    /\ threw' = FALSE
    /\ trace' = << >>
    /\ IF T <= 0
       THEN /\ pc' = "done"
            /\ result' = ExpiredVolatility(S, K, marketPrice, optionType)
            /\ UNCHANGED << sigma, iteration >>
       ELSE /\ pc' = "newton"
            /\ sigma' = InitialGuess
            /\ iteration' = 0
            /\ UNCHANGED result
    /\ UNCHANGED << calculator, now, kept >>
    /\ UNCHANGED serverVars

\* The loop body once diff and vega are computed: return sigma, break to
\* the return null, or update sigma and count the iteration.
NewtonPass(diff, vega) ==
    /\ trace' = Append(trace, [sigma |-> sigma, diff |-> diff])
    /\ IF WithinTolerance(diff, args.tolerance)
       THEN /\ pc' = "done"
            /\ result' = JsNumber(sigma)
            /\ UNCHANGED << sigma, iteration >>
       ELSE IF VegaVanishes(vega)
       THEN /\ pc' = "done"
            /\ result' = JsNull
            /\ UNCHANGED << sigma, iteration >>
       ELSE /\ sigma' = NewtonUpdate(sigma, diff, vega)
            /\ iteration' = iteration + 1
            /\ UNCHANGED << pc, result >>

\* One evaluation of the while condition and, if it holds, of the loop body.
NewtonStep ==
    /\ pc = "newton"
    /\ IF LoopContinues(iteration, args.maxIterations)
       THEN NewtonPass(args.marketPrice
                           - blackScholes(args.S, args.K, args.T, args.r, sigma,
                                          args.optionType),
                       calculateGreeks(args.S, args.K, args.T, args.r, sigma,
                                       args.optionType).vega)
       ELSE /\ pc' = "done"
            /\ result' = JsNull
            /\ UNCHANGED << sigma, iteration, trace >>
    /\ UNCHANGED << calculator, op, args, threw, now, kept >>
    /\ UNCHANGED serverVars

\* A call of calculateStrategyPayoff(strategy, price).
CallStrategyPayoff(strategy, price) ==
    /\ pc = "idle"
    /\ pc' = "done"
    /\ op' = "calculateStrategyPayoff"
    /\ args' = [strategy |-> strategy, price |-> price]
    /\ result' = calculateStrategyPayoff(strategy.legs, price)
    /\ threw' = FALSE
    /\ UNCHANGED << calculator, sigma, iteration, trace, now, kept >>
    /\ UNCHANGED serverVars

\* POST /api/calculate/strategy: calculateStrategyMetrics(strategy,
\* currentPrice) inside the handler's try.  strategy.legs.map on a strategy
\* without legs throws a TypeError, which the catch turns into the 500
\* response; every other strategy gets its metrics record.
CallStrategyMetrics(strategy, currentPrice) ==
    /\ pc = "idle"
    /\ pc' = "done"
    /\ op' = "calculateStrategyMetrics"
    /\ args' = [strategy |-> strategy, currentPrice |-> currentPrice]
    /\ IF "legs" \in DOMAIN strategy
       THEN /\ result' = calculateStrategyMetrics(strategy, currentPrice, now)
            /\ threw' = FALSE
       ELSE /\ result' = "TypeError"
            /\ threw' = TRUE
    /\ calculator' = CalculatorAfterCall(calculator)
    /\ UNCHANGED << sigma, iteration, trace, now, kept >>
    /\ UNCHANGED serverVars

\* POST /api/calculate/option: calculateOptionMetrics(option, currentPrice)
\* inside the handler's try.  body is the request body; without an option,
\* option.strikePrice throws a TypeError, which the catch turns into the
\* 500 response.
CallOptionMetrics(body) ==
    /\ pc = "idle"
    /\ pc' = "done"
    /\ op' = "calculateOptionMetrics"
    /\ args' = body
    /\ IF "option" \in DOMAIN body
       THEN /\ result' = calculateOptionMetrics(body.option, body.currentPrice, now)
            /\ threw' = FALSE
       ELSE /\ result' = "TypeError"
            /\ threw' = TRUE
    /\ calculator' = CalculatorAfterCall(calculator)
    /\ UNCHANGED << sigma, iteration, trace, now, kept >>
    /\ UNCHANGED serverVars

\* calculateTimeToExpiry(expirationDate) on the expirationDate of a product.
CallTimeToExpiry(expirationDate) ==
    /\ pc = "idle"
    /\ pc' = "done"
    /\ op' = "calculateTimeToExpiry"
    /\ args' = [expirationDate |-> expirationDate]
    /\ result' = TimeToExpiryOf(expirationDate, now)
    /\ threw' = FALSE
    /\ UNCHANGED << calculator, sigma, iteration, trace, now, kept >>
    /\ UNCHANGED serverVars

\* What a data-serving method of DeltaExchangeService settles with.  The
\* upstream request is inside the method's try, and so is the throw for a
\* response without result; the catch of getBTCOptionsAndFutures returns
\* the mock products, the catch of getMarketData, getOrderBook and
\* getHistoricalData returns mock data if NODE_ENV is 'development' and
\* rethrows the error otherwise.
ServiceAnswer(operation, environment, upstream) ==
    IF upstream = "ok" THEN [source |-> "upstream"]
    ELSE IF operation = "getBTCOptionsAndFutures" \/ environment = "development"
    THEN [source |-> "mock"]
    ELSE [source |-> "error"]

\* One call of a data-serving method, with the process's NODE_ENV and what
\* the upstream request comes to.
CallService(operation, environment, upstream) ==
    /\ pc = "idle"
    /\ pc' = "done"
    /\ op' = operation
    /\ args' = [environment |-> environment, upstream |-> upstream]
    /\ result' = ServiceAnswer(operation, environment, upstream)
    /\ threw' = (ServiceAnswer(operation, environment, upstream).source = "error")
    /\ UNCHANGED << calculator, sigma, iteration, trace, now, kept >>
    /\ UNCHANGED serverVars

\* The caller of a finished call holds on to what it asked and what it got.
Keep ==
    /\ pc = "done"
    /\ kept' = [op |-> op, args |-> args, result |-> result, threw |-> threw,
                at |-> now, between |-> FALSE]
    /\ UNCHANGED << calculator, now, pc, op, args, result, threw, sigma, iteration,
                    trace >>
    /\ UNCHANGED serverVars

\* The caller takes the result; the calculator keeps nothing of the call.
\* A caller holding an earlier response notes that a call of another
\* function has been served since.
Return ==
    /\ pc = "done"
    /\ pc' = "idle"
    /\ op' = "none"
    /\ args' = << >>
    /\ result' = "none"
    /\ threw' = FALSE
    /\ sigma' = 0
    /\ iteration' = 0
    /\ trace' = << >>
    /\ kept' = IF kept = NoCall \/ kept.op = op
               THEN kept
               ELSE [kept EXCEPT !.between = TRUE]
    /\ UNCHANGED << calculator, now >>
    /\ UNCHANGED serverVars

\* The calls a client can make while the calculator is idle.
AnyBlackScholes ==
    /\ pc = "idle"
    /\ \E S \in SpotPrices, K \in StrikePrices, T \in Expiries, r \in Rates,
          vol \in Volatilities, optionType \in OptionTypes :
          CallBlackScholes(S, K, T, r, vol, optionType)

AnyCalculateGreeks ==
    /\ pc = "idle"
    /\ \E S \in SpotPrices, K \in StrikePrices, T \in Expiries, r \in Rates,
          vol \in Volatilities, optionType \in OptionTypes :
          CallCalculateGreeks(S, K, T, r, vol, optionType)

\* POST /api/calculate/greeks with a body whose numbers are no strike and
\* no volatility: K zero or negative, sigma zero or negative, T not positive.
AnyInvalidGreeks ==
    /\ pc = "idle"
    /\ \E K \in {0, -10000}, T \in {0, -82192}, vol \in {-200000, 0, 200000},
          optionType \in OptionTypes :
          CallCalculateGreeks(10000, K, T, riskFreeRate, vol, optionType)

AnyImpliedVolatility ==
    /\ pc = "idle"
    /\ \E K \in IvStrikes, T \in Expiries, marketPrice \in MarketPrices,
          optionType \in OptionTypes, maxIterations \in IterationCaps,
          tolerance \in Tolerances :
          CallImpliedVolatility(10000, K, T, riskFreeRate, marketPrice, optionType,
                                maxIterations, tolerance)

\* calculateImpliedVolatility on a price that blackScholes has produced, for
\* an option half a year from expiry with the spot at twice the strike.
AnyRoundTrip ==
    /\ pc = "idle"
    /\ \E vol \in RoundTripVolatilities, optionType \in OptionTypes :
          CallImpliedVolatility(10000, 5000, 500000, riskFreeRate,
                                blackScholes(10000, 5000, 500000, riskFreeRate, vol,
                                             optionType),
                                optionType, DefaultMaxIterations, DefaultTolerance)

AnyStrategyPayoff ==
    /\ pc = "idle"
    /\ \E l \in LegLists, price \in PayoffPrices :
          CallStrategyPayoff([legs |-> l], price)

AnyStrategyMetrics ==
    /\ pc = "idle"
    /\ \E strategy \in Strategies, currentPrice \in CurrentPrices :
          CallStrategyMetrics(strategy, currentPrice)

AnyTimeToExpiry ==
    /\ pc = "idle"
    /\ \E expirationDate \in ExpirationValues : CallTimeToExpiry(expirationDate)

\* The upstream request succeeds, fails on the network, comes back with a
\* status that is not OK, or comes back without result.
AnyService ==
    /\ pc = "idle"
    /\ \E operation \in {"getBTCOptionsAndFutures", "getMarketData", "getOrderBook",
                          "getHistoricalData"},
          environment \in {"development", "production", "undefined"},
          upstream \in {"ok", "networkError", "notOk", "noResult"} :
          CallService(operation, environment, upstream)

AnyOptionMetrics ==
    /\ pc = "idle"
    /\ \E body \in {[option |-> o, currentPrice |-> c] :
                        o \in OptionInputs, c \in CurrentPrices}
                    \cup {NoOptionBody} :
          CallOptionMetrics(body)

Next ==
    \/ Tick
    \/ AnyBlackScholes
    \/ AnyCalculateGreeks
    \/ AnyInvalidGreeks
    \/ AnyImpliedVolatility
    \/ AnyRoundTrip
    \/ AnyStrategyPayoff
    \/ AnyStrategyMetrics
    \/ AnyOptionMetrics
    \/ AnyTimeToExpiry
    \/ AnyService
    \/ NewtonStep
    \/ Return

Spec == Init /\ [][Next]_vars

(***************************************************************************)
(* The same calculator with a caller that repeats calls: a few calls of    *)
(* each pricing function, any of which the caller may hold on to and make  *)
(* again later, after other calls and after the clock has moved.           *)
(***************************************************************************)
RepeatedStrategies ==
    { [legs |-> << Leg("call_option", 110000000, InThirtyDays, 1, "buy") >>],
      [legs |-> << Leg("put_option", 113000000, InOneHour, 1, "sell") >>],
      [legs |-> << Leg("call_option", 110000000, InThirtyDays, 1, "buy"),
                   Leg("call_option", 113000000, InThirtyDays, 1, "sell") >>] }

RepeatBlackScholes ==
    /\ pc = "idle"
    /\ \E vol \in Volatilities, optionType \in OptionTypes :
          CallBlackScholes(10000, 11000, 82192, riskFreeRate, vol, optionType)

RepeatCalculateGreeks ==
    /\ pc = "idle"
    /\ \E vol \in Volatilities, optionType \in OptionTypes :
          CallCalculateGreeks(10000, 11000, 82192, riskFreeRate, vol, optionType)

RepeatImpliedVolatility ==
    /\ pc = "idle"
    /\ \E marketPrice \in {300, 1046}, tolerance \in Tolerances :
          CallImpliedVolatility(10000, 10000, 82192, riskFreeRate, marketPrice, "call",
                                MaxNewton, tolerance)

RepeatOptionMetrics ==
    /\ pc = "idle"
    /\ \E o \in OptionInputs :
          CallOptionMetrics([option |-> o, currentPrice |-> 112000000])

RepeatStrategyMetrics ==
    /\ pc = "idle"
    /\ \E strategy \in RepeatedStrategies :
          CallStrategyMetrics(strategy, 112000000)

RepeatNext ==
    \/ Tick
    \/ RepeatBlackScholes
    \/ RepeatCalculateGreeks
    \/ RepeatImpliedVolatility
    \/ RepeatOptionMetrics
    \/ RepeatStrategyMetrics
    \/ NewtonStep
    \/ Keep
    \/ Return

RepeatSpec == Init /\ [][RepeatNext]_vars

(***************************************************************************)
(* The realtime side: server.js and DeltaExchangeService                   *)
(***************************************************************************)
\* Bounds of the realtime specification.
MaxMillis == 1
MaxSockets == 3

\* The Socket.IO sockets that may connect to the server.
Sockets == {"s1", "s2", "s3"}

\* subscribe(callback): the id is Date.now().toString(), and Map.set
\* replaces the entry an equal id already has.
subscribe(subscribers, callback) ==
    LET id == ToString(clockMs)
    IN  [id |-> id,
         subscribers |-> {s \in subscribers : s.id # id}
                             \cup {[id |-> id, callback |-> callback]}]

\* unsubscribe(id): Map.delete.
unsubscribe(subscribers, id) == {s \in subscribers : s.id # id}

\* connectWebSocket(): nothing when a socket is held and connected, otherwise
\* a new WebSocket, whose handlers refer to the service and not to the socket.
connectWebSocket ==
    IF deltaExchangeService.ws # 0 /\ deltaExchangeService.isConnected
    THEN UNCHANGED << deltaExchangeService, webSockets >>
    ELSE /\ webSockets' = Append(webSockets, "connecting")
         /\ deltaExchangeService' =
                [deltaExchangeService EXCEPT !.ws = Len(webSockets) + 1]

\* server.js at startup: deltaExchangeService.connectWebSocket().
StartServer ==
    /\ webSockets = << >>
    /\ ~disconnectRequested
    /\ connectWebSocket
    /\ UNCHANGED << clockMs, clients, timers, delivered, disconnectRequested >>
    /\ UNCHANGED << calculatorVars, priceVars >>

\* A millisecond passes.
MsTick ==
    /\ webSockets # << >>
    /\ clockMs < MaxMillis
    /\ clockMs' = clockMs + 1
    /\ UNCHANGED << clients, deltaExchangeService, webSockets, timers, delivered,
                    disconnectRequested >>
    /\ UNCHANGED << calculatorVars, priceVars >>

\* io.on('connection'): the socket's handler is subscribed and the id kept
\* for its 'disconnect'.
ClientConnect(socket) ==
    /\ webSockets # << >>
    /\ \A c \in clients : c.socket # socket
    /\ LET sub == subscribe(deltaExchangeService.subscribers, socket)
       IN  /\ deltaExchangeService' =
                  [deltaExchangeService EXCEPT !.subscribers = sub.subscribers]
           /\ clients' = clients \cup {[socket |-> socket, subscriptionId |-> sub.id]}
    /\ UNCHANGED << clockMs, webSockets, timers, delivered, disconnectRequested >>
    /\ UNCHANGED << calculatorVars, priceVars >>

\* socket.on('disconnect'): unsubscribe(subscriptionId).
ClientDisconnect(c) ==
    /\ c \in clients
    /\ clients' = clients \ {c}
    /\ deltaExchangeService' =
           [deltaExchangeService EXCEPT
                !.subscribers = unsubscribe(@, c.subscriptionId)]
    /\ UNCHANGED << clockMs, webSockets, timers, delivered, disconnectRequested >>
    /\ UNCHANGED << calculatorVars, priceVars >>

\* 'message' with a ticker: handleWebSocketMessage calls every subscriber,
\* and each callback emits 'marketUpdate' on its socket.
Ticker(k) ==
    /\ k \in DOMAIN webSockets
    /\ webSockets[k] = "open"
    /\ delivered' = {s.callback : s \in deltaExchangeService.subscribers}
    /\ UNCHANGED << clockMs, clients, deltaExchangeService, webSockets, timers,
                    disconnectRequested >>
    /\ UNCHANGED << calculatorVars, priceVars >>

\* 'open': isConnected = true (subscribeToTickers only sends).
Open(k) ==
    /\ k \in DOMAIN webSockets
    /\ webSockets[k] = "connecting"
    /\ webSockets' = [webSockets EXCEPT ![k] = "open"]
    /\ deltaExchangeService' = [deltaExchangeService EXCEPT !.isConnected = TRUE]
    /\ UNCHANGED << clockMs, clients, timers, delivered, disconnectRequested >>
    /\ UNCHANGED << calculatorVars, priceVars >>

\* 'error': isConnected = false; the socket's 'close' follows.
ErrorEvent(k) ==
    /\ k \in DOMAIN webSockets
    /\ webSockets[k] \in {"connecting", "open"}
    /\ webSockets' = [webSockets EXCEPT ![k] = "errored"]
    /\ deltaExchangeService' = [deltaExchangeService EXCEPT !.isConnected = FALSE]
    /\ UNCHANGED << clockMs, clients, timers, delivered, disconnectRequested >>
    /\ UNCHANGED << calculatorVars, priceVars >>

\* 'close', from the far end, after an error or after close(): isConnected =
\* false and setTimeout(() => this.connectWebSocket(), 5000).
CloseEvent(k) ==
    /\ k \in DOMAIN webSockets
    /\ webSockets[k] \in {"open", "errored", "closing"}
    /\ webSockets' = [webSockets EXCEPT ![k] = "closed"]
    /\ deltaExchangeService' = [deltaExchangeService EXCEPT !.isConnected = FALSE]
    /\ timers' = timers + 1
    /\ UNCHANGED << clockMs, clients, delivered, disconnectRequested >>
    /\ UNCHANGED << calculatorVars, priceVars >>

\* A reconnect timer expires: connectWebSocket().
TimerFires ==
    /\ timers > 0
    /\ \/ Len(webSockets) < MaxSockets
       \/ deltaExchangeService.ws # 0 /\ deltaExchangeService.isConnected
    /\ timers' = timers - 1
    /\ connectWebSocket
    /\ UNCHANGED << clockMs, clients, delivered, disconnectRequested >>
    /\ UNCHANGED << calculatorVars, priceVars >>

\* disconnect(), as the SIGTERM and SIGINT handlers call it: the held socket
\* is closed and let go.
DisconnectService ==
    /\ webSockets # << >>
    /\ disconnectRequested' = TRUE
    /\ IF deltaExchangeService.ws # 0
       THEN /\ webSockets' =
                   [webSockets EXCEPT ![deltaExchangeService.ws] =
                        IF @ \in {"connecting", "open"} THEN "closing" ELSE @]
            /\ deltaExchangeService' =
                   [deltaExchangeService EXCEPT !.ws = 0, !.isConnected = FALSE]
       ELSE UNCHANGED << deltaExchangeService, webSockets >>
    /\ UNCHANGED << clockMs, clients, timers, delivered >>
    /\ UNCHANGED << calculatorVars, priceVars >>

RealtimeNext ==
    \/ StartServer
    \/ MsTick
    \/ \E socket \in Sockets : ClientConnect(socket)
    \/ \E c \in clients : ClientDisconnect(c)
    \/ \E k \in 1..MaxSockets : Ticker(k)
    \/ \E k \in 1..MaxSockets : Open(k)
    \/ \E k \in 1..MaxSockets : ErrorEvent(k)
    \/ \E k \in 1..MaxSockets : CloseEvent(k)
    \/ TimerFires
    \/ DisconnectService

RealtimeSpec == Init /\ [][RealtimeNext]_vars

(***************************************************************************)
(* The Bitcoin price: BitcoinPriceService and its subscriber in server.js  *)
(***************************************************************************)
\* The bound on the CoinGecko requests made.
MaxFetches == 3

\* A field the response does not have.
JsUndefined == [type |-> "undefined"]

\* The outcomes of axios.get: a rejection (network error, timeout, status
\* outside 2xx), a body without bitcoin, a bitcoin object without usd, and a
\* bitcoin object with its usd price (in dollars).
UpstreamResponses ==
    { [ok |-> FALSE, bitcoin |-> FALSE, usd |-> JsUndefined],
      [ok |-> TRUE, bitcoin |-> FALSE, usd |-> JsUndefined],
      [ok |-> TRUE, bitcoin |-> TRUE, usd |-> JsUndefined],
      [ok |-> TRUE, bitcoin |-> TRUE, usd |-> JsNumber(64000)],
      [ok |-> TRUE, bitcoin |-> TRUE, usd |-> JsNumber(66000)] }

\* this.currentPrice is an object and not null.
HasPrice(service) == "price" \in DOMAIN service.currentPrice

\* A faulty notification that calls every subscriber twice;
\* ServerPriceIsLastSuccess must reject it.
notifySubscribersTwice(service) == service.subscribers \o service.subscribers

\* notifySubscribers(): the callbacks called, in order.
notifySubscribers(service) ==
    IF HasPrice(service) THEN service.subscribers ELSE << >>

\* fetchBitcoinPrice() from the answer of axios.get on: the service after it,
\* the record returned, and whether notifySubscribers() was reached.  The
\* record is stored before toLocaleString() is called on its price, which
\* throws into the catch block when the price is undefined.
fetchBitcoinPrice(service, response) ==
    IF response.ok /\ response.bitcoin
    THEN LET stored == [service EXCEPT !.currentPrice = [price |-> response.usd],
                                       !.lastUpdate = "recent"]
         IN  [service |-> stored, returned |-> stored.currentPrice,
              notified |-> response.usd.type = "number"]
    ELSE IF HasPrice(service)
         THEN [service |-> service, returned |-> service.currentPrice,
               notified |-> FALSE]
         ELSE LET fallbackPrice == [price |-> JsNumber(FallbackPrice)]
              IN  [service |-> [service EXCEPT !.currentPrice = fallbackPrice],
                   returned |-> fallbackPrice, notified |-> FALSE]

\* Whether one more request fits the bound.
WithinFetches == Len(completed) + inFlight.periodic + inFlight.route < MaxFetches

\* server.js at startup: startPeriodicUpdates() makes the initial request and
\* sets the interval timer, and the server subscribes before any answer.
StartPeriodicUpdates ==
    /\ ~bitcoinPriceService.updateTimer
    /\ bitcoinPriceService' =
           [bitcoinPriceService EXCEPT !.updateTimer = TRUE,
                                       !.subscribers = Append(@, "server")]
    /\ inFlight' = [inFlight EXCEPT !.periodic = @ + 1]
    /\ UNCHANGED << currentBTCPrice, completed, broadcasts, routeResponse >>
    /\ UNCHANGED << calculatorVars, realtimeVars >>

\* The interval timer fires: fetchBitcoinPrice().
PeriodicUpdate ==
    /\ bitcoinPriceService.updateTimer
    /\ WithinFetches
    /\ inFlight' = [inFlight EXCEPT !.periodic = @ + 1]
    /\ UNCHANGED << bitcoinPriceService, currentBTCPrice, completed, broadcasts,
                    routeResponse >>
    /\ UNCHANGED << calculatorVars, realtimeVars >>

\* More than updateInterval passes since lastUpdate.
UpdateIntervalPasses ==
    /\ bitcoinPriceService.lastUpdate = "recent"
    /\ bitcoinPriceService' = [bitcoinPriceService EXCEPT !.lastUpdate = "old"]
    /\ UNCHANGED << currentBTCPrice, inFlight, completed, broadcasts, routeResponse >>
    /\ UNCHANGED << calculatorVars, realtimeVars >>

\* GET /api/bitcoin-price: getCurrentPrice() answers from the cache, or
\* fetches when there is none or lastUpdate is null or too old.
GetBitcoinPrice ==
    /\ bitcoinPriceService.updateTimer
    /\ IF ~HasPrice(bitcoinPriceService) \/ bitcoinPriceService.lastUpdate # "recent"
       THEN /\ WithinFetches
            /\ inFlight' = [inFlight EXCEPT !.route = @ + 1]
            /\ UNCHANGED routeResponse
       ELSE /\ routeResponse' =
                   [status |-> 200, data |-> bitcoinPriceService.currentPrice]
            /\ UNCHANGED inFlight
    /\ UNCHANGED << bitcoinPriceService, currentBTCPrice, completed, broadcasts >>
    /\ UNCHANGED << calculatorVars, realtimeVars >>

\* axios.get settles for one caller and fetchBitcoinPrice() runs to its
\* return; the server's callback stores the price and emits 'btcPrice'; the
\* route answers with the record returned.
FetchCompletes(caller, response) ==
    /\ inFlight[caller] > 0
    /\ inFlight' = [inFlight EXCEPT ![caller] = @ - 1]
    /\ completed' = Append(completed, response)
    /\ LET fetched == fetchBitcoinPrice(bitcoinPriceService, response)
           called == IF fetched.notified THEN notifySubscribers(fetched.service)
                     ELSE << >>
       IN  /\ bitcoinPriceService' = fetched.service
           /\ currentBTCPrice' = IF called = << >> THEN currentBTCPrice
                                 ELSE fetched.returned.price
           /\ broadcasts' =
                  broadcasts \o [i \in 1..Len(called) |-> fetched.returned.price]
           /\ routeResponse' = IF caller = "route"
                               THEN [status |-> 200, data |-> fetched.returned]
                               ELSE routeResponse
    /\ UNCHANGED << calculatorVars, realtimeVars >>

PriceNext ==
    \/ StartPeriodicUpdates
    \/ PeriodicUpdate
    \/ UpdateIntervalPasses
    \/ GetBitcoinPrice
    \/ \E caller \in {"periodic", "route"}, response \in UpstreamResponses :
           FetchCompletes(caller, response)

PriceSpec == Init /\ [][PriceNext]_vars

(***************************************************************************)
(* Properties                                                              *)
(***************************************************************************)
\* max(0, S - K) for a call and max(0, K - S) for a put, written out.
IntrinsicValue(S, K, kind) ==
    IF kind = "call" THEN (IF S > K THEN S - K ELSE 0)
    ELSE (IF K > S THEN K - S ELSE 0)

\* C1: for every S, K, r, sigma and every T <= 0, blackScholes returns
\* exactly the intrinsic value, max(0, S - K) for a call and max(0, K - S)
\* for a put, whatever r and sigma are.
ExpiredPriceIsIntrinsic ==
    (pc = "done" /\ op = "blackScholes" /\ args.T <= 0) =>
        result = IntrinsicValue(args.S, args.K, args.optionType)

\* An expired out-of-the-money call, priced with a non-zero rate, was
\* valued at 0.
ExpiredCallOutOfTheMoney ==
    /\ pc = "done" /\ op = "blackScholes"
    /\ args.T < 0 /\ args.r > 0 /\ args.optionType = "call"
    /\ args.S < args.K /\ result = 0

\* The payoff of one leg at price S: quantity x direction x legPayoff.
SignedLegPayoff(leg, S) ==
    LET K == leg.option.strikePrice
        kind == leg.option.contractType
        legPayoff == IF kind = "call_option" THEN IntrinsicValue(S, K, "call")
                     ELSE IF kind = "put_option" THEN IntrinsicValue(S, K, "put")
                     ELSE S - K
        direction == IF leg.action = "sell" THEN -1 ELSE 1
    IN  leg.quantity * direction * legPayoff

\* The sum of the legs' payoffs, from the first leg on.
RECURSIVE SumOfLegs(_, _)
SumOfLegs(legs, S) ==
    IF legs = << >> THEN 0
    ELSE SignedLegPayoff(Head(legs), S) + SumOfLegs(Tail(legs), S)

\* C2: for every strategy and price S, calculateStrategyPayoff equals the
\* sum over all legs of quantity x direction x legPayoff, direction +1 for a
\* buy and -1 for a sell, legPayoff max(0, S - K) for a call, max(0, K - S)
\* for a put and S - K for a future.
StrategyPayoffIsSignedSum ==
    (pc = "done" /\ op = "calculateStrategyPayoff") =>
        result = SumOfLegs(args.strategy.legs, args.price)

\* A two-leg strategy with a sold leg and a future paid off negatively.
SoldLegPaidOff ==
    /\ pc = "done" /\ op = "calculateStrategyPayoff"
    /\ Len(args.strategy.legs) = 2
    /\ \E i \in 1..2 : args.strategy.legs[i].action = "sell"
    /\ \E i \in 1..2 : args.strategy.legs[i].option.contractType = "futures"
    /\ result < 0

\* C3: for every T <= 0, calculateGreeks returns gamma = theta = vega = rho
\* = 0 and a delta that is 1 for a call with S > K, 0 for a call with
\* S <= K, -1 for a put with S < K and 0 for a put with S >= K.
ExpiredGreeksAreFlat ==
    (pc = "done" /\ op = "calculateGreeks" /\ args.T <= 0) =>
        /\ result.gamma = 0 /\ result.theta = 0
        /\ result.vega = 0 /\ result.rho = 0
        /\ (args.optionType = "call" /\ args.S > args.K) => result.delta = DS
        /\ (args.optionType = "call" /\ args.S <= args.K) => result.delta = 0
        /\ (args.optionType = "put" /\ args.S < args.K) => result.delta = -DS
        /\ (args.optionType = "put" /\ args.S >= args.K) => result.delta = 0

\* The Greeks of an expired call exactly at the money were computed.
ExpiredCallAtTheMoney ==
    /\ pc = "done" /\ op = "calculateGreeks"
    /\ args.T <= 0 /\ args.optionType = "call" /\ args.S = args.K
    /\ result.delta = 0

\* C4: for every T <= 0, calculateImpliedVolatility returns 0 if the
\* intrinsic value equals marketPrice exactly and null in every other case,
\* without running any Newton iteration.
ExpiredVolatilityIsZeroOrNull ==
    (op = "calculateImpliedVolatility" /\ args.T <= 0) =>
        /\ pc = "done"
        /\ trace = << >>
        /\ iteration = 0
        /\ result = IF IntrinsicValue(args.S, args.K, args.optionType) = args.marketPrice
                    THEN JsNumber(0) ELSE JsNull

\* An expired in-the-money call quoted at its intrinsic value got
\* volatility 0.
ExpiredVolatilityZero ==
    /\ pc = "done" /\ op = "calculateImpliedVolatility"
    /\ args.T <= 0 /\ args.marketPrice > 0
    /\ result = JsNumber(0)

\* C5: for every input and every maxIterations >= 0,
\* calculateImpliedVolatility terminates after at most maxIterations Newton
\* updates and its outcome is a volatility or null: with a vega of magnitude
\* below 1e-10 or the cap exhausted it returns null and raises no error.
\* Termination is the bound on the loop: inside it every pass so far has
\* updated sigma and counted one iteration, and the count never exceeds
\* maxIterations, so the loop makes at most maxIterations updates.
ImpliedVolatilityEnds ==
    op = "calculateImpliedVolatility" =>
        /\ pc \in {"newton", "done"}
        /\ iteration <= args.maxIterations
        /\ pc = "newton" => Len(trace) = iteration
        /\ Len(trace) <= args.maxIterations
        /\ threw = FALSE
        /\ pc = "done" =>
            /\ result = JsNull \/ (result.type = "number" /\ result.value \in Nat)
            /\ (args.T > 0 /\ iteration = args.maxIterations) => result = JsNull
            /\ (args.T > 0 /\ trace # << >>) =>
                  LET last == trace[Len(trace)]
                      vega == calculateGreeks(args.S, args.K, args.T, args.r,
                                              last.sigma, args.optionType).vega
                  IN  (Abs(last.diff) >= args.tolerance /\ Abs(vega) < VegaEpsilon)
                          => result = JsNull

\* A search with a positive cap used every allowed update and returned null.
IterationCapExhausted ==
    /\ pc = "done" /\ op = "calculateImpliedVolatility"
    /\ args.T > 0 /\ args.maxIterations > 0
    /\ iteration = args.maxIterations
    /\ result = JsNull

\* C6: for T > 0, calculateImpliedVolatility returns a non-null sigma only
\* if |marketPrice - blackScholes(S, K, T, r, sigma, kind)| < tolerance for
\* the returned sigma, and it returns at the first iterate, starting from
\* sigma0 = 0.5, for which that test holds.
VolatilityReproducesPrice ==
    (op = "calculateImpliedVolatility" /\ args.T > 0) =>
        /\ trace # << >> =>
              LET last == trace[Len(trace)]
              IN  /\ trace[1].sigma = InitialGuess
                  /\ last.diff = args.marketPrice
                        - blackScholes(args.S, args.K, args.T, args.r, last.sigma,
                                       args.optionType)
                  /\ (pc = "done" /\ Abs(last.diff) < args.tolerance)
                        => result = JsNumber(last.sigma)
        /\ \A i \in 1..(Len(trace) - 1) : Abs(trace[i].diff) >= args.tolerance
        /\ pc = "newton" =>
              \A i \in 1..Len(trace) : Abs(trace[i].diff) >= args.tolerance
        /\ (pc = "done" /\ result # JsNull) =>
              /\ trace # << >>
              /\ result = JsNumber(trace[Len(trace)].sigma)
              /\ Abs(args.marketPrice
                     - blackScholes(args.S, args.K, args.T, args.r, result.value,
                                    args.optionType)) < args.tolerance

\* A search converged to a volatility after at least one Newton update.
VolatilityFoundAfterUpdates ==
    /\ pc = "done" /\ op = "calculateImpliedVolatility"
    /\ args.T > 0 /\ iteration > 0
    /\ result # JsNull

\* The strategies of the examples.
LongCallAtExpiry == << Leg("call_option", 113000000, AtExpiry, 1, "buy") >>

BullCallSpread ==
    << Leg("call_option", 110000000, InThirtyDays, 1, "buy"),
       Leg("call_option", 113000000, InThirtyDays, 1, "sell") >>

\* C7: for a single long call with strike K and zero premium cost, the
\* breakEvenPoints of calculateStrategyMetrics contain exactly one price and
\* that price is K.
LongCallBreaksEvenAtStrike ==
    (/\ pc = "done" /\ op = "calculateStrategyMetrics" /\ ~threw
     /\ Len(args.strategy.legs) = 1
     /\ args.strategy.legs[1].action = "buy"
     /\ args.strategy.legs[1].option.contractType = "call_option"
     /\ result.totalCost = 0) =>
        result.breakEvenPoints = << args.strategy.legs[1].option.strikePrice >>

\* C8: for the bull call spread (buy 1 call K = 110000, sell 1 call
\* K = 113000, same expiry) at S = 112000, calculateStrategyMetrics returns
\* exactly one break-even point and it lies between the two strikes.
BullCallSpreadBreaksEvenBetweenStrikes ==
    (/\ pc = "done" /\ op = "calculateStrategyMetrics" /\ ~threw
     /\ args.strategy.legs = BullCallSpread
     /\ args.currentPrice = 112000000) =>
        /\ Len(result.breakEvenPoints) = 1
        /\ result.breakEvenPoints[1] >= 110000000
        /\ result.breakEvenPoints[1] <= 113000000

\* C9: for the same bull call spread at S = 112000, maxProfit equals 3000
\* minus the net premium of the position (its totalCost) and maxLoss equals
\* the net premium paid, each to within 1.
BullCallSpreadExtremesNetOfPremium ==
    (/\ pc = "done" /\ op = "calculateStrategyMetrics" /\ ~threw
     /\ args.strategy.legs = BullCallSpread
     /\ args.currentPrice = 112000000) =>
        /\ Abs(result.maxProfit - (3000000 - result.totalCost)) <= 1000
        /\ Abs(Abs(result.maxLoss) - result.totalCost) <= 1000

\* C10: calculateStrategyMetrics called with a strategy whose leg list is
\* empty fails explicitly and never returns a metrics record.
EmptyStrategyFails ==
    (/\ pc = "done" /\ op = "calculateStrategyMetrics"
     /\ "legs" \in DOMAIN args.strategy
     /\ args.strategy.legs = << >>) =>
        threw

\* C11: calling any pricing function twice with identical arguments yields
\* identical output, whatever happens between the two calls (other
\* calculations, passage of wall-clock time).
RepeatedCallSameOutput ==
    (pc = "done" /\ kept.op = op /\ kept.args = args) =>
        (kept.threw = threw /\ kept.result = result)


TimeToExpiryIsNonNegativeNumber ==
    (pc = "done" /\ op = "calculateTimeToExpiry") =>
        /\ result.type = "number"
        /\ result.value >= 0
        /\ (args.expirationDate.type = "date" /\ args.expirationDate.at <= now) =>
               result.value = 0

\* The sum of one field over a list of records.
RECURSIVE FieldSum(_, _)
FieldSum(records, field) ==
    IF records = << >> THEN 0
    ELSE Head(records)[field] + FieldSum(Tail(records), field)

\* quantity x (+1 for buy, -1 for sell) of a leg.
SignedQuantity(leg) ==
    IF leg.action = "buy" THEN leg.quantity
    ELSE IF leg.action = "sell" THEN -leg.quantity
    ELSE 0

\* C14: in the record returned by calculateStrategyMetrics, each total
\* (totalDelta, totalGamma, totalTheta, totalVega, totalRho, totalCost) is the
\* plain sum over all legs of the per-leg position value, and each per-leg
\* position value is the leg's own metric (Greek or price) multiplied by
\* quantity and by +1 for buy, -1 for sell.
StrategyTotalsArePlainSums ==
    (pc = "done" /\ op = "calculateStrategyMetrics" /\ ~threw) =>
        /\ Len(result.legs) = Len(args.strategy.legs)
        /\ result.totalDelta = FieldSum(result.legs, "positionDelta")
        /\ result.totalGamma = FieldSum(result.legs, "positionGamma")
        /\ result.totalTheta = FieldSum(result.legs, "positionTheta")
        /\ result.totalVega = FieldSum(result.legs, "positionVega")
        /\ result.totalRho = FieldSum(result.legs, "positionRho")
        /\ result.totalCost = FieldSum(result.legs, "positionCost")
        /\ \A i \in 1..Len(result.legs) :
              LET m == result.legs[i]
                  n == SignedQuantity(args.strategy.legs[i])
              IN  /\ m.positionDelta = m.greeks.delta * n
                  /\ m.positionGamma = m.greeks.gamma * n
                  /\ m.positionTheta = m.greeks.theta * n
                  /\ m.positionVega = m.greeks.vega * n
                  /\ m.positionRho = m.greeks.rho * n
                  /\ m.positionCost = m.price * n

BoughtAndSoldLegsTotalled ==
    /\ pc = "done" /\ op = "calculateStrategyMetrics" /\ ~threw
    /\ Len(result.legs) = 2
    /\ \E i, j \in 1..2 :
          /\ args.strategy.legs[i].action = "buy"
          /\ args.strategy.legs[j].action = "sell"
          /\ args.strategy.legs[j].quantity > 1
          /\ result.legs[i].positionCost > 0
          /\ result.legs[j].positionCost < 0
    /\ result.totalDelta # 0
    /\ result.totalTheta # 0


\* The crossing the loop computes at index i of the sampled curve.
CrossingAt(payoffData, i) == Crossing(payoffData[i - 1], payoffData[i])

\* C15: the break-even list is in ascending price order and no two of its
\* entries are less than 0.5 apart; a crossing within 0.5 of an already
\* recorded one is discarded and the first found is kept, so every crossing
\* of the curve is either recorded or within 0.5 of a recorded one found
\* before it.
BreakEvensAscendingAndApart ==
    (pc = "done" /\ op = "calculateStrategyMetrics" /\ ~threw) =>
        LET b == result.breakEvenPoints
            pd == result.payoffData
            I == CrossingIndices(pd)
            Recorded(i) == \E k \in 1..Len(b) : b[k] = CrossingAt(pd, i)
        IN  /\ \A j, k \in 1..Len(b) : j < k => b[k] - b[j] >= 500
            /\ \A k \in 1..Len(b) : \E i \in I : b[k] = CrossingAt(pd, i)
            /\ \A i \in I :
                  \/ Recorded(i)
                  \/ \E j \in I : /\ j < i
                                   /\ Recorded(j)
                                   /\ Abs(CrossingAt(pd, j) - CrossingAt(pd, i)) < 500
            /\ I # {} => b[1] = CrossingAt(pd, Least(I))

CloseCrossingDiscarded ==
    /\ pc = "done" /\ op = "calculateStrategyMetrics" /\ ~threw
    /\ Cardinality(CrossingIndices(result.payoffData)) > Len(result.breakEvenPoints)
    /\ Len(result.breakEvenPoints) >= 1


\* C16: implied-volatility round trip: for T > 0 and sigma in the range 0.1
\* to 2.0, calculateImpliedVolatility on the price blackScholes gives for
\* sigma returns a number within 1e-4 of sigma, and not null.
VolatilityRoundTrip ==
    (pc = "done" /\ op = "calculateImpliedVolatility" /\ args.T > 0
        /\ args.maxIterations = DefaultMaxIterations
        /\ args.tolerance = DefaultTolerance) =>
        \A vol \in RoundTripVolatilities :
            args.marketPrice = blackScholes(args.S, args.K, args.T, args.r, vol,
                                            args.optionType) =>
                /\ result.type = "number"
                /\ Abs(result.value - vol) <= 100


ServiceFallsBackToMock ==
    (pc = "done"
        /\ op \in {"getBTCOptionsAndFutures", "getMarketData", "getOrderBook",
                    "getHistoricalData"}
        /\ args.upstream # "ok") =>
        (~threw /\ result.source = "mock")


\* C19: every calculation endpoint validates its input: a request whose body
\* has missing or invalid fields (K <= 0, sigma <= 0, S <= 0, an absent
\* option, absent legs) is answered with an error response and never with
\* success: true.
InvalidRequestsRejected ==
    /\ (pc = "done" /\ op = "calculateGreeks"
           /\ (args.S <= 0 \/ args.K <= 0 \/ args.sigma <= 0)) => threw
    /\ (pc = "done" /\ op = "calculateOptionMetrics"
           /\ "option" \notin DOMAIN args) => threw
    /\ (pc = "done" /\ op = "calculateStrategyMetrics"
           /\ "legs" \notin DOMAIN args.strategy) => threw


\* C20: in calculateImpliedVolatility with T > 0, every volatility at which
\* the price and vega are evaluated is >= 0.001: the volatility the next pass
\* will use and each one a pass has used, for any marketPrice.
EvaluatedVolatilityAtLeastFloor ==
    (op = "calculateImpliedVolatility" /\ args.T > 0) =>
        /\ pc = "newton" => sigma >= SigmaFloor
        /\ \A i \in 1..Len(trace) : trace[i].sigma >= SigmaFloor
        /\ Len(trace) >= 1 => trace[1].sigma = InitialGuess

EvaluatedAtTheFloor ==
    /\ op = "calculateImpliedVolatility" /\ args.T > 0
    /\ \E i \in 2..Len(trace) :
          /\ trace[i].sigma = SigmaFloor
          /\ trace[i - 1].sigma > SigmaFloor


\* The strikes of a list of legs, as a set.
StrikeSet(legs) == {legs[i].option.strikePrice : i \in 1..Len(legs)}

\* The least and the greatest of a non-empty set of numbers.
LeastOf(A) == CHOOSE a \in A : \A b \in A : a <= b

GreatestOf(A) == CHOOSE a \in A : \A b \in A : a >= b

\* range = max(maxStrike - minStrike, 0.5 S), taken from the strikes.
WindowRange(legs, S) ==
    Max2(GreatestOf(StrikeSet(legs)) - LeastOf(StrikeSet(legs)), S \div 2)

\* C21: for every strategy with at least one leg and every spot S, the
\* window sampled by calculatePayoffRange starts at min(minStrike, S) -
\* 0.3 range and ends at max(maxStrike, S) + 0.3 range, where range =
\* max(maxStrike - minStrike, 0.5 S).  The start is read off the first
\* sample, which is the start rounded to 2 decimals.
PayoffWindowAroundStrikes ==
    (pc = "done" /\ op = "calculateStrategyMetrics" /\ ~threw
        /\ Len(args.strategy.legs) >= 1) =>
        LET legs == args.strategy.legs
            S == args.currentPrice
        IN  /\ result.payoffData[1].price =
                   Round2(Min2(LeastOf(StrikeSet(legs)), S)
                              - (3 * WindowRange(legs, S)) \div 10)
            /\ PayoffWindow(legs, S).end =
                   Max2(GreatestOf(StrikeSet(legs)), S)
                       + (3 * WindowRange(legs, S)) \div 10

\* C21 as amended: the window starts at max(0, min(minStrike, S) - 0.3
\* range) and ends at max(maxStrike, S) + 0.3 range.
PayoffWindowFlooredAtZero ==
    (pc = "done" /\ op = "calculateStrategyMetrics" /\ ~threw
        /\ Len(args.strategy.legs) >= 1) =>
        LET legs == args.strategy.legs
            S == args.currentPrice
        IN  /\ result.payoffData[1].price =
                   Round2(Max2(0, Min2(LeastOf(StrikeSet(legs)), S)
                                      - (3 * WindowRange(legs, S)) \div 10))
            /\ PayoffWindow(legs, S).end =
                   Max2(GreatestOf(StrikeSet(legs)), S)
                       + (3 * WindowRange(legs, S)) \div 10

WindowStartsAtZero ==
    /\ pc = "done" /\ op = "calculateStrategyMetrics" /\ ~threw
    /\ Len(args.strategy.legs) = 2
    /\ result.payoffData[1].price = 0
    /\ LeastOf(StrikeSet(args.strategy.legs)) > 0


\* C22: for every spot S > 0 and legs with non-negative strikes, the payoff
\* curve is the window sampled at 100 equal steps: 101 samples, start +
\* i (end - start) / 100 for i = 0..100, each rounded to 2 decimals, in
\* ascending price order, the first at the window start and the last at the
\* window end.
PayoffCurveSamplesWindow ==
    (pc = "done" /\ op = "calculateStrategyMetrics" /\ ~threw
        /\ Len(args.strategy.legs) >= 1 /\ args.currentPrice > 0) =>
        LET w == PayoffWindow(args.strategy.legs, args.currentPrice)
            pd == result.payoffData
        IN  /\ Len(pd) = 101
            /\ pd[1].price = Round2(w.start)
            /\ pd[Len(pd)].price = Round2(w.end)
            /\ \A i \in 1..(Len(pd) - 1) : pd[i].price < pd[i + 1].price
            /\ \A i \in 1..Len(pd) :
                  Abs(pd[i].price
                          - Round2(w.start
                                       + (i - 1) * ((w.end - w.start) \div 100)
                                       + ((i - 1) * ((w.end - w.start) % 100)) \div 100))
                      <= 10


\* The payoffs of two adjacent samples change sign or touch zero, and their
\* combined magnitude is not below the threshold.
CrossesZero(prev, curr) ==
    /\ \/ prev.payoff <= 0 /\ curr.payoff >= 0
       \/ prev.payoff >= 0 /\ curr.payoff <= 0
    /\ Abs(prev.payoff) + Abs(curr.payoff) >= 1

\* c is the linear interpolation of the zero between two samples, rounded to
\* 2 decimals: it divides the segment in the ratio of |prev.payoff| to the
\* combined magnitude, lies between the two prices and nearer the sample of
\* smaller magnitude.
InterpolatesZero(prev, curr, c) ==
    /\ prev.price <= c /\ c <= curr.price
    /\ Abs(Div(c - prev.price, curr.price - prev.price)
             - Div(Abs(prev.payoff), Abs(prev.payoff) + Abs(curr.payoff))) <= 50
    /\ Abs(prev.payoff) < Abs(curr.payoff) => c - prev.price <= curr.price - c
    /\ Abs(prev.payoff) > Abs(curr.payoff) => c - prev.price >= curr.price - c

\* C23: for every pair of adjacent samples between which the payoff changes
\* sign or touches zero, findBreakEvenPoints computes the crossing prev.price
\* + |prev.payoff| / (|prev.payoff| + |curr.payoff|) (curr.price -
\* prev.price), rounded to 2 decimals, between the two prices and nearer the
\* sample of smaller magnitude; a pair of combined magnitude below 1e-6 and a
\* pair of the same strict sign yield none.  So every recorded break-even is
\* the interpolation of such a pair, and every such pair has its
\* interpolation recorded, or one recorded within 0.5 of its segment.
CrossingsInterpolateLinearly ==
    (pc = "done" /\ op = "calculateStrategyMetrics" /\ ~threw) =>
        LET b == result.breakEvenPoints
            pd == result.payoffData
        IN  /\ \A k \in 1..Len(b) : \E i \in 2..Len(pd) :
                  /\ CrossesZero(pd[i - 1], pd[i])
                  /\ InterpolatesZero(pd[i - 1], pd[i], b[k])
            /\ \A i \in 2..Len(pd) : CrossesZero(pd[i - 1], pd[i]) =>
                  \E k \in 1..Len(b) :
                      \/ InterpolatesZero(pd[i - 1], pd[i], b[k])
                      \/ /\ pd[i - 1].price - 500 < b[k]
                         /\ b[k] < pd[i].price + 500

CrossingInsideSegment ==
    /\ pc = "done" /\ op = "calculateStrategyMetrics" /\ ~threw
    /\ \E k \in 1..Len(result.breakEvenPoints), i \in 2..Len(result.payoffData) :
          /\ result.payoffData[i - 1].payoff < 0
          /\ result.payoffData[i].payoff > 0
          /\ result.payoffData[i - 1].price < result.breakEvenPoints[k]
          /\ result.breakEvenPoints[k] < result.payoffData[i].price
          /\ -result.payoffData[i - 1].payoff # result.payoffData[i].payoff


\* What of a strategy's metrics does not list the legs one by one.
OrderFreePart(m) ==
    [payoffData |-> m.payoffData, breakEvenPoints |-> m.breakEvenPoints,
     maxProfit |-> m.maxProfit, maxLoss |-> m.maxLoss,
     totalDelta |-> m.totalDelta, totalGamma |-> m.totalGamma,
     totalTheta |-> m.totalTheta, totalVega |-> m.totalVega,
     totalRho |-> m.totalRho, totalCost |-> m.totalCost]

\* A list with its first two entries exchanged, and with its first entry
\* moved to the end: the two together generate every permutation.
SwapFirstTwo(legs) ==
    [i \in 1..Len(legs) |-> IF i = 1 THEN legs[2] ELSE IF i = 2 THEN legs[1] ELSE legs[i]]

RotateLeft(legs) == Append(Tail(legs), Head(legs))

SubscriptionsOwnCallbacks ==
    /\ \A c \in clients :
           [id |-> c.subscriptionId, callback |-> c.socket]
               \in deltaExchangeService.subscribers
    /\ \A c, d \in clients : c # d => c.subscriptionId # d.subscriptionId

\* C26: once disconnect() has been called and connectWebSocket() not called
\* again explicitly, no step creates an upstream WebSocket.
NoSocketAfterDisconnect ==
    [][disconnectRequested => Len(webSockets') = Len(webSockets)]_vars

\* C27: calculateOptionMetrics values an instrument as the kind that
\* calculateStrategyPayoff pays it off as: the intrinsic value it reports at
\* the current price is the payoff of one bought unit at that price, so a
\* future is valued linearly and not as an option.
PricedAsPaidOff ==
    (pc = "done" /\ op = "calculateOptionMetrics" /\ ~threw)
        => result.intrinsic = LegPayoff(args.option, args.currentPrice)

\* C29: the record of calculateOptionMetrics has extrinsic = price -
\* intrinsic and intrinsic >= 0; its price is the option's lastPrice when
\* there is one and the Black-Scholes price otherwise; without a lastPrice
\* and with T <= 0 the price is the intrinsic value and extrinsic is 0.
PriceIsLastOrTheoretical ==
    (pc = "done" /\ op = "calculateOptionMetrics" /\ ~threw) =>
        LET o == args.option
            kind == IF o.contractType = "call_option" THEN "call" ELSE "put"
            sigmaUsed == IF o.impliedVolatility # 0 THEN o.impliedVolatility
                         ELSE DefaultVolatility
        IN  /\ result.extrinsic = result.price - result.intrinsic
            /\ result.intrinsic >= 0
            /\ o.lastPrice # 0 => result.price = o.lastPrice
            /\ o.lastPrice = 0 =>
                   result.price = blackScholes(args.currentPrice, o.strikePrice,
                                               result.timeToExpiry,
                                               calculator.riskFreeRate, sigmaUsed, kind)
            /\ (o.lastPrice = 0 /\ result.timeToExpiry <= 0) =>
                   (result.price = result.intrinsic /\ result.extrinsic = 0)

\* A traded option measured: its last price lies below its intrinsic value,
\* so its extrinsic value is negative.
LastPriceBelowIntrinsic ==
    /\ pc = "done" /\ op = "calculateOptionMetrics" /\ ~threw
    /\ args.option.lastPrice # 0
    /\ result.price = args.option.lastPrice
    /\ result.extrinsic < 0

\* A fetch that stored and announced a price.
Succeeded(response) ==
    response.ok /\ response.bitcoin /\ response.usd.type = "number"

\* C28: currentBTCPrice is the price of the last successful fetch completed
\* (65000 before the first), and the 'btcPrice' broadcasts are the prices of
\* the successful fetches, one each and in their order: a failed fetch
\* changes neither.
ServerPriceIsLastSuccess ==
    LET successes == SelectSeq(completed, Succeeded)
    IN  /\ currentBTCPrice = IF successes = << >> THEN JsNumber(FallbackPrice)
                             ELSE successes[Len(successes)].usd
        /\ broadcasts = [i \in 1..Len(successes) |-> successes[i].usd]

\* A fetch failed after one had succeeded.
FailureAfterSuccess ==
    /\ Len(completed) >= 2
    /\ Succeeded(completed[Len(completed) - 1])
    /\ ~Succeeded(completed[Len(completed)])
    /\ Len(broadcasts) = 1

\* C30: a fetch that fails leaves the cached price record as it was when
\* there is one, and caches the fallback record of 65000 when there is none;
\* so the record getCurrentPrice resolves with carries a price.
FailedFetchKeepsCache ==
    [][(Len(completed') = Len(completed) + 1
            /\ ~Succeeded(completed'[Len(completed')]))
         => bitcoinPriceService'.currentPrice =
                IF HasPrice(bitcoinPriceService) THEN bitcoinPriceService.currentPrice
                ELSE [price |-> JsNumber(FallbackPrice)]]_vars


=============================================================================
